---- MODULE Spec2Model ----
(***************************************************************************)
(* Model of the PhoneInput widget of clerk-js                              *)
(* (ui.retheme/elements/PhoneInput/PhoneInput.tsx).                        *)
(*                                                                         *)
(* A JavaScript string is a sequence of one-character strings, so that     *)
(* includes(), toLowerCase() and template literals are computed character  *)
(* by character.                                                           *)
(***************************************************************************)
EXTENDS Integers, Sequences, FiniteSets, TLC

VARIABLES
    iso,              \* hook state: the current ISO selection
    number,           \* hook state: the current local number
    isDisabled,       \* prop rest.isDisabled
    hasOnChangeProp,  \* whether the caller supplied the onChange prop
    phase,            \* "rendered" (first render, not committed) or "mounted"
    phoneInputRef,    \* phoneInputRef.current: "null" or "input"
    effectDeps,       \* the deps useEffect saw at its last run (<<>> before the first)
    calls,            \* the calls the last DOM event made, in order
    onChangeEvents,   \* the events handed to onChangeProp since the last DOM event
    lastEmitted,      \* the last event handed to onChangeProp (<<>> before the first)
    lastEvent,        \* the last DOM event: its kind and its text or chosen ISO
    threw,            \* an event handler or effect raised a TypeError
    searchTerm,       \* the term typed in the Select's search box
    visibleOptions    \* the indices of countryOptions the Select lists

vars == <<iso, number, isDisabled, hasOnChangeProp, phase, phoneInputRef,
          effectDeps, calls, onChangeEvents, lastEmitted, lastEvent, threw,
          searchTerm, visibleOptions>>

(***************************************************************************)
(* Bounds                                                                  *)
(***************************************************************************)
MaxLen == 3        \* longest text typed or pasted
MaxTermLen == 2    \* longest search term

InputChars == {"+", "1", "4"}
TermChars == {"U", "s", "K", "4"}
Digits == {"0", "1", "2", "3", "4", "5", "6", "7", "8", "9"}

RECURSIVE Strings(_, _)
Strings(chars, n) ==
    IF n = 0 THEN {<<>>}
    ELSE LET shorter == Strings(chars, n - 1)
         IN  shorter \cup {Append(s, c) : s \in {t \in shorter : Len(t) = n - 1}, c \in chars}

Texts == Strings(InputChars, MaxLen)
Terms == Strings(TermChars, MaxTermLen)

(***************************************************************************)
(* JavaScript string primitives                                            *)
(***************************************************************************)
\* String.prototype.includes
Includes(s, t) ==
    \E i \in 0..(Len(s) - Len(t)) : \A j \in 1..Len(t) : s[i + j] = t[j]

LowerChar(c) ==
    CASE c = "U" -> "u"
      [] c = "S" -> "s"
      [] c = "K" -> "k"
      [] c = "G" -> "g"
      [] OTHER -> c

\* String.prototype.toLowerCase
ToLowerCase(s) == [i \in DOMAIN s |-> LowerChar(s[i])]

(***************************************************************************)
(* The country table and the select options                                *)
(***************************************************************************)
IsoToCountryMap ==
    << [iso |-> <<"u", "s">>, name |-> <<"U", "S">>, code |-> <<"1">>],
       [iso |-> <<"g", "b">>, name |-> <<"U", "K">>, code |-> <<"4", "4">>],
       [iso |-> <<"u", "g">>, name |-> <<"U", "g">>, code |-> <<"4">>] >>

createSelectOption(country) ==
    [ searchTerm |-> country.iso \o <<" ">> \o country.name \o <<" ">> \o country.code,
      value      |-> country.iso \o <<" ">> \o country.name \o <<" ">> \o country.code,
      country    |-> country ]

countryOptions == [k \in DOMAIN IsoToCountryMap |-> createSelectOption(IsoToCountryMap[k])]

TableIsos == {IsoToCountryMap[k].iso : k \in DOMAIN IsoToCountryMap}

\* __internal_country is cast to CountryIso unchecked: it may name no table entry
UnknownIso == <<"x", "x">>
Undefined == <<>>
LocationIsos == TableIsos \cup {UnknownIso, Undefined}
InitValues == {<<>>, <<"+", "4", "4", "1">>}

(***************************************************************************)
(* useFormattedPhoneNumber                                                 *)
(***************************************************************************)
ExtractDigits(s) == SelectSeq(s, LAMBDA c : c \in Digits)

IsPrefix(p, s) == Len(p) <= Len(s) /\ SubSeq(s, 1, Len(p)) = p

DefaultIso == IsoToCountryMap[1].iso

\* the inferred country is the entry with the longest dial code that starts the digits
parsePhoneString(str) ==
    LET digits  == ExtractDigits(str)
        matches == {k \in DOMAIN IsoToCountryMap : IsPrefix(IsoToCountryMap[k].code, digits)}
    IN  IF matches = {}
        THEN [iso |-> DefaultIso, number |-> digits]
        ELSE LET k == CHOOSE m \in matches :
                          \A o \in matches : Len(IsoToCountryMap[o].code) <= Len(IsoToCountryMap[m].code)
             IN  [iso    |-> IsoToCountryMap[k].iso,
                  number |-> SubSeq(digits, Len(IsoToCountryMap[k].code) + 1, Len(digits))]

InitialNumber(initPhoneWithCode) == parsePhoneString(initPhoneWithCode).number

InitialIso(initPhoneWithCode, locationBasedCountryIso) ==
    IF parsePhoneString(initPhoneWithCode).number # <<>>
    THEN parsePhoneString(initPhoneWithCode).iso
    ELSE IF locationBasedCountryIso # Undefined THEN locationBasedCountryIso ELSE DefaultIso

DialCode(i) ==
    IF \E k \in DOMAIN IsoToCountryMap : IsoToCountryMap[k].iso = i
    THEN IsoToCountryMap[CHOOSE k \in DOMAIN IsoToCountryMap : IsoToCountryMap[k].iso = i].code
    ELSE IsoToCountryMap[1].code

\* the combined "dial code + number" string
numberWithCodeOf(i, n) == <<"+">> \o DialCode(i) \o ExtractDigits(n)
numberWithCode == numberWithCodeOf(iso, number)

\* the text shown in the number field
formattedNumberOf(n) == ExtractDigits(n)
formattedNumber == formattedNumberOf(number)

\* one setter call applied to the hook state st = [iso, number]
ApplySetter(st, call) ==
    CASE call.fn = "setNumber"       -> [st EXCEPT !.number = call.arg]
      [] call.fn = "setIso"          -> [st EXCEPT !.iso = call.arg]
      [] call.fn = "setNumberAndIso" -> [iso    |-> parsePhoneString(call.arg).iso,
                                         number |-> parsePhoneString(call.arg).number]
      [] OTHER -> st

RECURSIVE ApplyCalls(_, _)
ApplyCalls(st, cs) ==
    IF cs = <<>> THEN st ELSE ApplyCalls(ApplySetter(st, Head(cs)), Tail(cs))

(***************************************************************************)
(* PhoneInputBase                                                          *)
(***************************************************************************)
Call(fn, arg) == [fn |-> fn, arg |-> arg]
NoArg == <<>>

\* onChangeProp?.({ target: { value: numberWithCode } })
callOnChangeProp(supplied, value) ==
    IF supplied THEN << [target |-> [value |-> value]] >> ELSE << >>

\* a lookup that forgets the find and always takes the first entry
selectedCountryOptionOf_first(i) == countryOptions[1]

\* countryOptions.find(o => o.country.iso === iso) || countryOptions[0]
selectedCountryOptionOf(i) ==
    IF \E k \in DOMAIN countryOptions : countryOptions[k].country.iso = i
    THEN countryOptions[CHOOSE k \in DOMAIN countryOptions :
                            /\ countryOptions[k].country.iso = i
                            /\ \A m \in DOMAIN countryOptions :
                                   countryOptions[m].country.iso = i => k <= m]
    ELSE countryOptions[1]

selectedCountryOption == selectedCountryOptionOf(iso)

\* a paste handler that tests startsWith('+') in place of includes('+')
handlePaste_startsWith(inputValue) ==
    <<Call("preventDefault", NoArg)>> \o
    IF Len(inputValue) > 0 /\ inputValue[1] = "+"
    THEN <<Call("setNumberAndIso", inputValue)>>
    ELSE <<Call("setNumber", inputValue)>>

\* a paste handler without e.preventDefault()
handlePaste_noPreventDefault(inputValue) ==
    IF Includes(inputValue, <<"+">>)
    THEN <<Call("setNumberAndIso", inputValue)>>
    ELSE <<Call("setNumber", inputValue)>>

handlePaste(inputValue) ==
    <<Call("preventDefault", NoArg)>> \o
    IF Includes(inputValue, <<"+">>)
    THEN <<Call("setNumberAndIso", inputValue)>>
    ELSE <<Call("setNumber", inputValue)>>

\* a change handler that always parses the text as an international number
handlePhoneNumberChange_alwaysParse(inputValue) ==
    <<Call("setNumberAndIso", inputValue)>>

handlePhoneNumberChange(inputValue) ==
    IF Includes(inputValue, <<"+">>)
    THEN <<Call("setNumberAndIso", inputValue)>>
    ELSE <<Call("setNumber", inputValue)>>

\* phoneInputRef.current?.focus()
focusInput(ref) == IF ref # "null" THEN <<Call("focus", NoArg)>> ELSE << >>
focusThrows(ref) == FALSE

\* a Select onChange that focuses before it sets the ISO
selectOnChange_focusFirst(option, ref) ==
    focusInput(ref) \o <<Call("setIso", option.country.iso)>>

\* Select onChange
selectOnChange(option, ref) ==
    <<Call("setIso", option.country.iso)>> \o focusInput(ref)

\* a comparator that lower-cases the option only
comparator_termAsTyped(term, option) == Includes(ToLowerCase(option.searchTerm), term)

\* Select comparator
comparator(term, option) == Includes(ToLowerCase(option.searchTerm), ToLowerCase(term))

\* a SelectButton that is not handed isDisabled
selectButtonIsDisabled_unset == FALSE

\* what the two controls render
selectButtonIsDisabled == isDisabled
inputIsDisabled == isDisabled
buttonLabel == iso
dialCodePrefix == <<"+">> \o selectedCountryOption.country.code
maxLength == 25

(***************************************************************************)
(* The state machine                                                       *)
(***************************************************************************)
AllOptions == DOMAIN countryOptions

Init ==
    /\ \E v \in InitValues, l \in LocationIsos :
          /\ iso = InitialIso(v, l)
          /\ number = InitialNumber(v)
    /\ isDisabled \in BOOLEAN
    /\ hasOnChangeProp \in BOOLEAN
    /\ phase = "rendered"
    /\ phoneInputRef = "null"
    /\ effectDeps = << >>
    /\ calls = << >>
    /\ onChangeEvents = << >>
    /\ lastEmitted = << >>
    /\ lastEvent = [kind |-> "none", input |-> << >>]
    /\ threw = FALSE
    /\ searchTerm = << >>
    /\ visibleOptions = AllOptions

\* an effect with an empty dependency list: it runs on mount only
effectRuns_mountOnly(deps, value) == deps = << >>

\* the effect runs on mount and whenever a dependency differs from the last run's
effectRuns(deps, value) == deps # <<value>>

effectPending == phase = "mounted" /\ effectRuns(effectDeps, numberWithCode)
idle == phase = "mounted" /\ ~effectPending /\ ~threw

\* the commit of the first render attaches the refs
Mount ==
    /\ phase = "rendered"
    /\ phase' = "mounted"
    /\ phoneInputRef' \in {"input", "null"}
    /\ UNCHANGED <<iso, number, isDisabled, hasOnChangeProp, effectDeps, calls,
                   onChangeEvents, lastEmitted, lastEvent, threw, searchTerm,
                   visibleOptions>>

\* useEffect(callOnChangeProp, [numberWithCode])
RunEffect ==
    /\ effectPending
    /\ LET events == callOnChangeProp(hasOnChangeProp, numberWithCode)
       IN  /\ onChangeEvents' = onChangeEvents \o events
           /\ lastEmitted' = IF events = << >> THEN lastEmitted ELSE events
    /\ effectDeps' = <<numberWithCode>>
    /\ UNCHANGED <<iso, number, isDisabled, hasOnChangeProp, phase, phoneInputRef,
                   calls, lastEvent, threw, searchTerm, visibleOptions>>

\* the handler's calls take effect and the widget renders again
Commit(kind, input, cs) ==
    LET st == ApplyCalls([iso |-> iso, number |-> number], cs)
    IN  /\ lastEvent' = [kind |-> kind, input |-> input]
        /\ calls' = cs
        /\ iso' = st.iso
        /\ number' = st.number
        /\ onChangeEvents' = << >>

\* the user edits the number field
ChangeEvent ==
    /\ idle
    /\ ~inputIsDisabled
    /\ \E text \in Texts : Commit("change", text, handlePhoneNumberChange(text))
    /\ UNCHANGED <<isDisabled, hasOnChangeProp, phase, phoneInputRef, effectDeps,
                   lastEmitted, threw, searchTerm, visibleOptions>>

\* the browser's default action of a paste inserts the text and fires a change
DefaultPaste(cs, clip) ==
    IF \E k \in DOMAIN cs : cs[k].fn = "preventDefault"
    THEN << >>
    ELSE LET merged == formattedNumber \o clip
         IN  handlePhoneNumberChange(SubSeq(merged, 1, IF Len(merged) < maxLength THEN Len(merged) ELSE maxLength))

\* the user pastes into the number field
PasteEvent ==
    /\ idle
    /\ ~inputIsDisabled
    /\ \E clip \in Texts :
          LET cs == handlePaste(clip) IN Commit("paste", clip, cs \o DefaultPaste(cs, clip))
    /\ UNCHANGED <<isDisabled, hasOnChangeProp, phase, phoneInputRef, effectDeps,
                   lastEmitted, threw, searchTerm, visibleOptions>>

\* the user picks a country in the dropdown
SelectCountry ==
    /\ idle
    /\ ~selectButtonIsDisabled
    /\ \E k \in DOMAIN countryOptions :
          /\ Commit("select", countryOptions[k].country.iso,
                    selectOnChange(countryOptions[k], phoneInputRef))
          /\ threw' = focusThrows(phoneInputRef)
    /\ UNCHANGED <<isDisabled, hasOnChangeProp, phase, phoneInputRef, effectDeps,
                   lastEmitted, searchTerm, visibleOptions>>

\* the parent renders the widget again with another isDisabled
SetDisabled ==
    /\ idle
    /\ isDisabled' = ~isDisabled
    /\ UNCHANGED <<iso, number, hasOnChangeProp, phase, phoneInputRef, effectDeps,
                   calls, onChangeEvents, lastEmitted, lastEvent, threw, searchTerm,
                   visibleOptions>>

\* the user types in the search box of the dropdown
Search ==
    /\ idle
    /\ ~selectButtonIsDisabled
    /\ \E term \in Terms :
          /\ searchTerm' = term
          /\ visibleOptions' = {k \in DOMAIN countryOptions : comparator(term, countryOptions[k])}
    /\ UNCHANGED <<iso, number, isDisabled, hasOnChangeProp, phase, phoneInputRef,
                   effectDeps, calls, onChangeEvents, lastEmitted, lastEvent, threw>>

Next ==
    \/ Mount
    \/ RunEffect
    \/ ChangeEvent
    \/ PasteEvent
    \/ SelectCountry
    \/ SetDisabled

Spec == Init /\ [][Next]_vars

NextSearch ==
    \/ Mount
    \/ RunEffect
    \/ Search

SpecSearch == Init /\ [][NextSearch]_vars

TypeOK ==
    /\ phase \in {"rendered", "mounted"}
    /\ phoneInputRef \in {"null", "input"}
    /\ isDisabled \in BOOLEAN
    /\ hasOnChangeProp \in BOOLEAN
    /\ threw \in BOOLEAN
    /\ Len(onChangeEvents) <= 1

(***************************************************************************)
(* Properties                                                              *)
(***************************************************************************)
SetterNames == {"setNumber", "setIso", "setNumberAndIso"}
SetterCalls(cs) == SelectSeq(cs, LAMBDA c : c.fn \in SetterNames)
HasPlus(text) == \E i \in DOMAIN text : text[i] = "+"
IsEdit == lastEvent.kind \in {"change", "paste"}

\* C1: a typed or pasted text that holds a "+" anywhere makes the handler call
\* setNumberAndIso with the whole text, and neither setNumber nor setIso.
C1_PlusReplacesNumberAndIso ==
    IsEdit /\ HasPlus(lastEvent.input)
        => SetterCalls(calls) = <<Call("setNumberAndIso", lastEvent.input)>>

C1_Witness ==
    /\ lastEvent.kind = "paste"
    /\ lastEvent.input = <<"1", "+", "4">>
    /\ SetterCalls(calls) = <<Call("setNumberAndIso", <<"1", "+", "4">>)>>

\* C2: a typed or pasted text without "+" makes the handler call setNumber with
\* that text and no other setter, and the edit leaves the ISO selection as it was.
C2_NoPlusEditsNumberOnly ==
    [][ (ChangeEvent \/ PasteEvent) /\ ~HasPlus(lastEvent'.input)
          => /\ SetterCalls(calls') = <<Call("setNumber", lastEvent'.input)>>
             /\ iso' = iso
             /\ number' = lastEvent'.input ]_vars

C2_Witness ==
    /\ lastEvent = [kind |-> "change", input |-> <<"4", "4", "1">>]
    /\ iso = <<"u", "s">>
    /\ number = <<"4", "4", "1">>

\* C3: once the effects of an event have run, the last event handed to onChange
\* carries the current numberWithCode; at most one event is emitted per DOM event,
\* exactly one on mount; without an onChange prop nothing is emitted and nothing
\* throws.
C3_OnChangeCarriesNumberWithCode ==
    /\ Len(onChangeEvents) <= 1
    /\ phase = "mounted" /\ ~effectPending =>
          IF hasOnChangeProp
          THEN /\ lastEmitted = << [target |-> [value |-> numberWithCode]] >>
               /\ lastEvent.kind = "none" => onChangeEvents = lastEmitted
          ELSE /\ lastEmitted = << >>
               /\ onChangeEvents = << >>
               /\ ~threw

C3_Witness ==
    /\ hasOnChangeProp
    /\ lastEvent.kind = "select"
    /\ ~effectPending
    /\ onChangeEvents = << [target |-> [value |-> <<"+", "4", "4", "1">>]] >>

\* C4: choosing a country option sets the ISO to that option's iso, then focuses
\* the number input when the ref is attached and skips the focus when it is not;
\* no other setter is called, the number is kept and nothing throws.
C4_SelectSetsIsoThenFocuses ==
    [][ SelectCountry
          => /\ calls' = IF phoneInputRef = "null"
                         THEN <<Call("setIso", lastEvent'.input)>>
                         ELSE <<Call("setIso", lastEvent'.input), Call("focus", NoArg)>>
             /\ iso' = lastEvent'.input
             /\ number' = number
             /\ ~threw' ]_vars

C4_Witness ==
    /\ lastEvent = [kind |-> "select", input |-> <<"g", "b">>]
    /\ phoneInputRef = "null"
    /\ calls = <<Call("setIso", <<"g", "b">>)>>
    /\ number # << >>

\* C5: the selected option is the table's option for the current ISO when there
\* is one and the first option otherwise; it is always an option of the table and
\* no error is raised.
C5_SelectedOptionFallsBack ==
    /\ \E k \in DOMAIN countryOptions : selectedCountryOption = countryOptions[k]
    /\ iso \in TableIsos => selectedCountryOption.country.iso = iso
    /\ iso \notin TableIsos => selectedCountryOption = countryOptions[1]
    /\ ~threw

C5_Witness ==
    /\ iso \notin TableIsos
    /\ phase = "mounted"
    /\ selectedCountryOption = countryOptions[1]

\* C6: while isDisabled is set both controls are disabled, no DOM event changes
\* the ISO or the number, and the only onChange emitted is the one of the mount.
C6_DisabledBlocksInput ==
    /\ [](isDisabled => selectButtonIsDisabled /\ inputIsDisabled)
    /\ [][ isDisabled
             => /\ iso' = iso
                /\ number' = number
                /\ lastEvent' = lastEvent
                /\ calls' = calls
                /\ onChangeEvents' # onChangeEvents => effectDeps = << >> ]_vars

C6_Witness ==
    /\ isDisabled
    /\ phase = "mounted"
    /\ lastEvent.kind = "paste"
    /\ ~effectPending

\* C7: the options listed for a search term are those whose "<iso> <name> <code>",
\* lower-cased, holds the lower-cased term as a substring; the empty term lists
\* every option.
SearchText(k) ==
    IsoToCountryMap[k].iso \o <<" ">> \o IsoToCountryMap[k].name \o <<" ">> \o IsoToCountryMap[k].code

MatchesAt(k, term, off) ==
    \A j \in 1..Len(term) : LowerChar(SearchText(k)[off + j]) = LowerChar(term[j])

C7_SearchMatchesLowerCased ==
    /\ visibleOptions =
          {k \in DOMAIN IsoToCountryMap :
              \E off \in 0..(Len(SearchText(k)) - Len(searchTerm)) : MatchesAt(k, searchTerm, off)}
    /\ searchTerm = << >> => visibleOptions = DOMAIN IsoToCountryMap

C7_Witness ==
    /\ searchTerm = <<"U", "K">>
    /\ visibleOptions = {2}

\* C8: the ISO on the selector button and the dial code of the prefix belong to
\* the same table entry.
C8_ButtonAndPrefixSameEntry ==
    \E k \in DOMAIN IsoToCountryMap :
        /\ buttonLabel = IsoToCountryMap[k].iso
        /\ dialCodePrefix = <<"+">> \o IsoToCountryMap[k].code

\* C9: a paste makes one setter call, with the clipboard text alone; the default
\* insertion is prevented, so no change event follows the paste.
C9_PasteUpdatesOnce ==
    lastEvent.kind = "paste"
        => /\ Len(SetterCalls(calls)) = 1
           /\ SetterCalls(calls)[1].arg = lastEvent.input
           /\ calls[1] = Call("preventDefault", NoArg)
           /\ Len(calls) = 2

C9_Witness ==
    /\ lastEvent = [kind |-> "paste", input |-> <<"4", "1">>]
    /\ calls = <<Call("preventDefault", NoArg), Call("setNumber", <<"4", "1">>)>>
    /\ number = <<"4", "1">>
====
